---- MODULE Spec2Model ----
(***************************************************************************)
(* Authentication and access control of my_rust_framework:                 *)
(*   framework/src/auth.rs     password hashing, JWT issue/validate, the   *)
(*                             AuthUser extractor, the error mapping       *)
(*   framework/src/lib.rs      FrameworkApp::run (startup configuration)   *)
(*   framework/src/structs.rs  UserRole, User                              *)
(*   starter/src/services      index, login, users handlers                *)
(*                                                                         *)
(* Two specifications:                                                     *)
(*   SpecCodec  the token codec and the guard as functions of their        *)
(*              inputs (any cookie, any clock value, secret set or not);   *)
(*   Spec       the running application: startup, concurrent login         *)
(*              requests, guarded user-management requests, the clock.     *)
(*                                                                         *)
(* Library behaviour the code relies on and that is modelled here:         *)
(*   jsonwebtoken::decode with Validation::default(): HS256 only, the      *)
(*     signature is verified before the payload is deserialized, and `exp` *)
(*     is validated by the library itself with a leeway of 60 seconds;     *)
(*   std::sync::OnceLock::get_or_init: one initializer runs, the others    *)
(*     block until the value is set;                                       *)
(*   argon2 encoded hashes are self-describing (salt inside the string).   *)
(* The clock is at or after the epoch, and one request reads one value of  *)
(* it.                                                                     *)
(***************************************************************************)
EXTENDS Integers, Sequences, FiniteSets, TLC

\* ---------------------------------------------------------------- bounds
MaxTicks == 1
StartTime == 100000
MaxSub == 2

\* ------------------------------------------------------ program constants
\* create_jwt: 3600 * 12 seconds of validity
TTL == 43200
\* Validation::default().leeway of jsonwebtoken
Leeway == 60

NoVal == "<unset>"

VARIABLES
    pc,          \* position of FrameworkApp::run
    env,         \* the process environment (std::env)
    dotenvFile,  \* the variables the .env file would supply
    appData,     \* AppData handed to the handlers
    now,         \* wall clock, whole seconds since the epoch
    ticks,       \* number of clock advances so far (bounds the run)
    guard,       \* the most recent AuthUser extraction and what followed
    minted,      \* the most recent create_jwt result
    users,       \* the users table, in row order
    DUMMY_HASH,  \* the OnceLock<String> of login.rs
    hashRuns,    \* how often the initializer closure of DUMMY_HASH has run
    reqs,        \* the login requests, one record per request
    guarded,     \* number of requests to guarded routes so far (bounds the run)
    limiter,     \* the auth rate limiter's state, one entry per client address
    limited,     \* the most recent request to a rate-limited route
    parsed,      \* the most recent conversion of a text to a UserRole
    checked,     \* the most recent verify_password call and what login made of it
    regs         \* the register requests, one record per request

\* ---------------------------------------------------------------- roles
UserRole_Admin == "UserRole::Admin"
UserRole_User == "UserRole::User"
UserRole_None == "UserRole::None"
UserRole == {UserRole_Admin, UserRole_User, UserRole_None}

\* serde's derived Serialize for a unit-variant enum: the variant name
SerializeRole(r) ==
    CASE r = UserRole_Admin -> "Admin"
      [] r = UserRole_User -> "User"
      [] r = UserRole_None -> "None"

RoleVariantNames == {"Admin", "User", "None"}

\* serde's derived Deserialize: exact variant names only
DeserializeRole(s) ==
    CASE s = "Admin" -> UserRole_Admin
      [] s = "User" -> UserRole_User
      [] s = "None" -> UserRole_None

\* ------------------------------------------------------- text to role
\* a text is a sequence of characters; the letters that have two cases here
UpperCase == <<"A", "D", "M", "I", "N", "U", "S", "E", "R", "O">>
LowerCase == <<"a", "d", "m", "i", "n", "u", "s", "e", "r", "o">>

\* char::to_lowercase
to_lowercase_char(c) ==
    IF \E i \in DOMAIN UpperCase : UpperCase[i] = c
    THEN LowerCase[CHOOSE i \in DOMAIN UpperCase : UpperCase[i] = c]
    ELSE c

\* str::to_lowercase
to_lowercase(s) == [i \in DOMAIN s |-> to_lowercase_char(s[i])]

\* str::trim: without the white space at its two ends
trim(s) ==
    LET idx == {i \in DOMAIN s : s[i] # " "}
    IN  IF idx = {} THEN <<>>
        ELSE SubSeq(s, CHOOSE i \in idx : \A j \in idx : i <= j,
                       CHOOSE i \in idx : \A j \in idx : j <= i)

\* str::contains(char)
contains(s, c) == \E i \in DOMAIN s : s[i] = c

\* impl FromStr for UserRole: Ok(role) or Err("Unknown role: ..")
from_str(s) ==
    LET l == to_lowercase(s)
    IN  IF l = <<"a", "d", "m", "i", "n">> THEN [ok |-> TRUE, role |-> UserRole_Admin]
        ELSE IF l = <<"u", "s", "e", "r">> THEN [ok |-> TRUE, role |-> UserRole_User]
        ELSE IF l = <<"n", "o", "n", "e">> THEN [ok |-> TRUE, role |-> UserRole_None]
        ELSE [ok |-> FALSE, role |-> UserRole_None]

\* mutant: the fallback of the conversion is Admin
From_String_unwrap_or_admin(s) ==
    LET r == from_str(s) IN IF r.ok THEN r.role ELSE UserRole_Admin

\* impl From<String> / From<&str> for UserRole: s.parse().unwrap_or(None)
From_String(s) ==
    LET r == from_str(s) IN IF r.ok THEN r.role ELSE UserRole_None

\* ---------------------------------------------------------------- tokens
\* A token as the three-part string it is: wf = it splits and decodes as
\* header.payload.signature; alg = header algorithm; key = the key its
\* signature was computed with; sub, role, exp = the JSON payload.
NoClaims == [sub |-> 0, role |-> UserRole_None, exp |-> 0]
NoToken == [wf |-> FALSE, alg |-> "-", key |-> "-", sub |-> 0, role |-> "-", exp |-> 0]

\* Claims { sub, role, exp }
Claims(sub, role, exp) == [sub |-> sub, role |-> role, exp |-> exp]

\* jsonwebtoken::encode(&Header::default(), &claims, &EncodingKey::from_secret(..))
encode(claims, secret) ==
    [wf |-> TRUE, alg |-> "HS256", key |-> secret,
     sub |-> claims.sub, role |-> SerializeRole(claims.role), exp |-> claims.exp]

\* jsonwebtoken::decode::<Claims>(&token, &key, &Validation::default())
decode(token, secret, t) ==
    IF ~token.wf THEN [ok |-> FALSE, claims |-> NoClaims, err |-> "InvalidToken"]
    ELSE IF token.alg # "HS256"
        THEN [ok |-> FALSE, claims |-> NoClaims, err |-> "InvalidAlgorithm"]
    ELSE IF token.key # secret
        THEN [ok |-> FALSE, claims |-> NoClaims, err |-> "InvalidSignature"]
    ELSE IF token.role \notin RoleVariantNames
        THEN [ok |-> FALSE, claims |-> NoClaims, err |-> "Json"]
    ELSE IF token.exp < t - Leeway
        THEN [ok |-> FALSE, claims |-> NoClaims, err |-> "ExpiredSignature"]
    ELSE [ok |-> TRUE,
          claims |-> Claims(token.sub, DeserializeRole(token.role), token.exp),
          err |-> "-"]

\* ------------------------------------------------------------- JwtError
JwtError == {"SecretNotSet", "ExpirationError", "JwtEncodingError",
             "JwtDecodingError", "JwtExpired", "TokenNotFound", "Unauthorized"}

\* #[error("...")] of each variant
JwtErrorMessage(e) ==
    CASE e = "SecretNotSet" -> "JWT_SECRET not set"
      [] e = "ExpirationError" -> "Error calculating expiration time"
      [] e = "JwtEncodingError" -> "Error encoding the JWT"
      [] e = "JwtDecodingError" -> "Error decoding the JWT"
      [] e = "JwtExpired" -> "JWT has expired"
      [] e = "TokenNotFound" -> "Token not found in request"
      [] e = "Unauthorized" -> "Unauthorized access"

\* mutant: Unauthorized falls into the catch-all arm
AuthErrorFrom_unauthorized_other(e) ==
    IF e \in {"TokenNotFound", "JwtExpired", "JwtDecodingError"}
    THEN [kind |-> "Redirect", status |-> 302, location |-> "/login", body |-> ""]
    ELSE [kind |-> "Other", status |-> 500, location |-> "", body |-> JwtErrorMessage(e)]

\* impl From<JwtError> for AuthError
AuthErrorFrom(e) ==
    IF e \in {"TokenNotFound", "JwtExpired", "JwtDecodingError", "Unauthorized"}
    THEN [kind |-> "Redirect", status |-> 302, location |-> "/login", body |-> ""]
    ELSE [kind |-> "Other", status |-> 500, location |-> "", body |-> JwtErrorMessage(e)]

\* impl From<AuthError> for Error: the response the client gets
ErrorFrom(authError) ==
    IF authError.kind = "Redirect"
    THEN [status |-> authError.status, location |-> authError.location,
          body |-> authError.body]
    ELSE [status |-> 500, location |-> "", body |-> authError.body]

NoResponse == [status |-> 0, location |-> "", body |-> ""]

\* ------------------------------------------------------------ the codec
\* mutant: the validity is subtracted instead of added
create_jwt_backdated(user, e, t) ==
    IF e["JWT_SECRET"] = NoVal
    THEN [ok |-> FALSE, token |-> NoToken, err |-> "SecretNotSet"]
    ELSE [ok |-> TRUE,
          token |-> encode(Claims(user.id, user.role, t - TTL), e["JWT_SECRET"]),
          err |-> "-"]

\* create_jwt(user): reads JWT_SECRET from the environment on every call
\* (login.rs also hands it data.jwt_secret, the value run() read from the
\* same variable)
create_jwt(user, e, t) ==
    IF e["JWT_SECRET"] = NoVal
    THEN [ok |-> FALSE, token |-> NoToken, err |-> "SecretNotSet"]
    ELSE [ok |-> TRUE,
          token |-> encode(Claims(user.id, user.role, t + TTL), e["JWT_SECRET"]),
          err |-> "-"]

\* mutant: the expiry of the unverified payload is looked at first
read_jwt_expiry_first(cookie, e, t) ==
    IF cookie = <<>>
    THEN [ok |-> FALSE, claims |-> NoClaims, err |-> "TokenNotFound"]
    ELSE IF e["JWT_SECRET"] = NoVal
    THEN [ok |-> FALSE, claims |-> NoClaims, err |-> "SecretNotSet"]
    ELSE IF cookie[1].wf /\ cookie[1].exp < t
    THEN [ok |-> FALSE, claims |-> NoClaims, err |-> "JwtExpired"]
    ELSE LET token_data == decode(cookie[1], e["JWT_SECRET"], t)
         IN  IF ~token_data.ok
             THEN [ok |-> FALSE, claims |-> NoClaims, err |-> "JwtDecodingError"]
             ELSE [ok |-> TRUE, claims |-> token_data.claims, err |-> "-"]

\* read_jwt(req): cookie is <<>> or <<token>>
read_jwt(cookie, e, t) ==
    IF cookie = <<>>
    THEN [ok |-> FALSE, claims |-> NoClaims, err |-> "TokenNotFound"]
    ELSE IF e["JWT_SECRET"] = NoVal
    THEN [ok |-> FALSE, claims |-> NoClaims, err |-> "SecretNotSet"]
    ELSE LET token_data == decode(cookie[1], e["JWT_SECRET"], t)
         IN  IF ~token_data.ok
             THEN [ok |-> FALSE, claims |-> NoClaims, err |-> "JwtDecodingError"]
             ELSE IF token_data.claims.exp < t
             THEN [ok |-> FALSE, claims |-> NoClaims, err |-> "JwtExpired"]
             ELSE [ok |-> TRUE, claims |-> token_data.claims, err |-> "-"]

\* mutant: the role of the claims is not compared
from_request_any_role(cookie, e, t) ==
    LET r == read_jwt(cookie, e, t)
    IN  IF r.ok
        THEN [ok |-> TRUE, claims |-> r.claims, err |-> "-",
              response |-> NoResponse]
        ELSE [ok |-> FALSE, claims |-> NoClaims, err |-> r.err,
              response |-> ErrorFrom(AuthErrorFrom(r.err))]

\* mutant: the account of the token is looked up again and must be an Admin
from_request_rechecks_storage(cookie, e, t) ==
    LET r == read_jwt(cookie, e, t)
        result == IF ~r.ok THEN r
                  ELSE IF /\ r.claims.role = UserRole_Admin
                          /\ \E i \in DOMAIN users :
                                /\ users[i].id = r.claims.sub
                                /\ users[i].role = UserRole_Admin
                       THEN r
                  ELSE [ok |-> FALSE, claims |-> NoClaims, err |-> "Unauthorized"]
    IN  IF result.ok
        THEN [ok |-> TRUE, claims |-> result.claims, err |-> "-",
              response |-> NoResponse]
        ELSE [ok |-> FALSE, claims |-> NoClaims, err |-> result.err,
              response |-> ErrorFrom(AuthErrorFrom(result.err))]

\* impl FromRequest for AuthUser
from_request(cookie, e, t) ==
    LET r == read_jwt(cookie, e, t)
        result == IF ~r.ok THEN r
                  ELSE IF r.claims.role = UserRole_Admin THEN r
                  ELSE [ok |-> FALSE, claims |-> NoClaims, err |-> "Unauthorized"]
    IN  IF result.ok
        THEN [ok |-> TRUE, claims |-> result.claims, err |-> "-",
              response |-> NoResponse]
        ELSE [ok |-> FALSE, claims |-> NoClaims, err |-> result.err,
              response |-> ErrorFrom(AuthErrorFrom(result.err))]

\* What a request to a guarded route leaves behind: the input, the
\* extraction and whether the handler body ran.
GuardRecord(route, cookie, e, t) ==
    LET x == from_request(cookie, e, t)
    IN  [route |-> route, cookie |-> cookie, at |-> t, secret |-> e["JWT_SECRET"],
         read |-> read_jwt(cookie, e, t),
         ok |-> x.ok, claims |-> x.claims, err |-> x.err,
         response |-> x.response, handlerRan |-> x.ok]

NoGuard ==
    [route |-> "-", cookie |-> <<>>, at |-> 0, secret |-> NoVal,
     read |-> [ok |-> FALSE, claims |-> NoClaims, err |-> "-"],
     ok |-> FALSE, claims |-> NoClaims, err |-> "-",
     response |-> NoResponse, handlerRan |-> FALSE]

NoMint ==
    [user |-> [id |-> 0, role |-> UserRole_None], at |-> 0, secret |-> NoVal,
     ok |-> FALSE, token |-> NoToken, err |-> "-"]

partVars == <<limiter, limited, parsed, checked, regs>>

vars == <<pc, env, dotenvFile, appData, now, ticks, guard, minted,
          users, DUMMY_HASH, hashRuns, reqs, guarded, partVars>>

\* ---------------------------------------------------------- rate limiter
Addrs == {"10.0.0.1", "10.0.0.2"}

\* mutant: a burst of two
auth_rate_limiter_burst2 == [seconds_per_request |-> 120, burst_size |-> 2]

\* auth_rate_limiter(): seconds_per_request(120), burst_size(1), keyed by
\* the peer address
auth_rate_limiter == [seconds_per_request |-> 120, burst_size |-> 1]

\* Governor's check of one request at time t against the entry of its key
\* (GCRA): tat = 0 means no entry yet. The request conforms when t has
\* reached tat + T - tau, with T the period and tau = T * burst; a
\* conforming request moves tat to max(tat, t) + T.
GovernorCheck(config, tat, t) ==
    LET T == config.seconds_per_request
        tau == T * config.burst_size
        cur == IF tat = 0 THEN t ELSE tat
        earliest == cur + T - tau
        later == IF cur > t THEN cur ELSE t
    IN  IF t < earliest
        THEN [conforms |-> FALSE, tat |-> tat]
        ELSE [conforms |-> TRUE, tat |-> later + T]

\* an entry of the limiter: tat is Governor's state; last is the time of
\* the last request of the address that was let through (-1: none yet)
NoEntry == [tat |-> 0, last |-> 0 - 1]
NoLimited ==
    [addr |-> "-", at |-> 0, prev |-> 0 - 1, admitted |-> FALSE,
     status |-> 0, reached |-> FALSE]

\* ------------------------------------------------------ register requests
RegSlots == {1, 2}

\* the responses of register.rs post
NoRegResponse == [status |-> 0, location |-> "", template |-> "", error |-> ""]
RegisterView(error) ==
    [status |-> 200, location |-> "", template |-> "register", error |-> error]
RegisterInternalError ==
    [status |-> 500, location |-> "", template |-> "", error |-> ""]
RegisterRedirect ==
    [status |-> 303, location |-> "/login", template |-> "", error |-> ""]

\* a register request: its position in post(), the form, the locals email
\* and hashed_password, the response, and the id of the row it inserted
IdleReg ==
    [step |-> "idle", email |-> <<>>, password |-> "", repeat_password |-> "",
     normalized |-> <<>>, hashed_password |-> [ok |-> FALSE, salt |-> 0, pw |-> ""],
     response |-> NoRegResponse, inserted |-> 0]

\* ---------------------------------------------------------- part records
NoParsed == [text |-> <<>>, via |-> "-", ok |-> FALSE, role |-> UserRole_None]
NoChecked ==
    [password |-> "", hash |-> [ok |-> FALSE, salt |-> 0, pw |-> ""],
     role |-> UserRole_None, result |-> FALSE, status |-> 0, error |-> "",
     issued |-> FALSE]

PartsInit ==
    /\ limiter = [a \in Addrs |-> NoEntry]
    /\ limited = NoLimited
    /\ parsed = NoParsed
    /\ checked = NoChecked
    /\ regs = [k \in RegSlots |-> IdleReg]

\* ------------------------------------------------------------ passwords
\* An encoded argon2 hash as the self-describing string it is: ok = it
\* parses as an encoded hash; salt and pw = what the digest was computed
\* from.
NoHash == [ok |-> FALSE, salt |-> 0, pw |-> ""]

\* hash_password(password); salt is the 16 random bytes
hash_password(password, salt) == [ok |-> TRUE, salt |-> salt, pw |-> password]

\* mutant: an error of verify_encoded counts as a match
verify_password_err_true(password, hash) ==
    IF hash.ok THEN hash.pw = password ELSE TRUE

\* verify_password(password, hash): an Err of verify_encoded is false
verify_password(password, hash) ==
    IF hash.ok THEN hash.pw = password ELSE FALSE

DummyPassword == "dummy_password_for_timing_safety"
\* the hard-coded failsafe of login.rs: a digest of no password a form holds
FailsafeHash == [ok |-> TRUE, salt |-> 0, pw |-> "<failsafe>"]

\* ---------------------------------------------------------- users table
\* a row of users: id, email (a text: "a@x", "u@x"), password (encoded
\* hash), role
AdminRow ==
    [id |-> 1, email |-> <<"a", "@", "x">>,
     password |-> hash_password("correct horse", 1), role |-> UserRole_Admin]
UserRow ==
    [id |-> 2, email |-> <<"u", "@", "x">>,
     password |-> hash_password("correct horse", 2), role |-> UserRole_User]
InitialTables == {<<>>, <<AdminRow, UserRow>>}

\* SELECT * FROM users WHERE email = $1 ... fetch_one: the first match
SelectByEmail(table, email) ==
    LET idx == {i \in DOMAIN table : table[i].email = email}
    IN  IF idx = {} THEN <<>>
        ELSE <<table[CHOOSE i \in idx : \A j \in idx : i <= j]>>

\* UPDATE users SET role = ? WHERE id = ?
UpdateRole(table, id, role) ==
    [i \in DOMAIN table |->
        IF table[i].id = id THEN [table[i] EXCEPT !.role = role] ELSE table[i]]

\* DELETE FROM users WHERE id = ?
DeleteById(table, id) == SelectSeq(table, LAMBDA row : row.id # id)

\* ======================================================== SpecCodec
EnvVars == {"JWT_SECRET", "DOMAIN", "DATABASE_URL", "ENV"}
NoAppData == [env |-> "-", domain |-> "-", jwt_secret |-> "-"]

ExpOffsets == {0 - TTL, 0 - (Leeway + 1), 0 - Leeway, 0 - 1, 0, 1, TTL}
TokenKeys == {"k1", "evil"}
TokenRoles == {"Admin", "User", "None", "admin"}

\* Every cookie a client can send at time t: none, a string that is not a
\* token, an unsigned (alg none) token, and HS256 tokens with any payload
\* signed with the process key or with another key.
Cookies(t) ==
    {<<>>, <<NoToken>>,
     <<[wf |-> TRUE, alg |-> "none", key |-> "-", sub |-> 1, role |-> "Admin",
        exp |-> t + TTL]>>} \cup
    { <<[wf |-> TRUE, alg |-> "HS256", key |-> k, sub |-> s, role |-> r,
         exp |-> t + d]>> :
        k \in TokenKeys, s \in 1..MaxSub, r \in TokenRoles, d \in ExpOffsets }

CodecInit ==
    /\ pc = "codec"
    /\ env \in { [v \in EnvVars |-> IF v = "JWT_SECRET" THEN s ELSE NoVal] :
                 s \in {NoVal, "k1"} }
    /\ dotenvFile = [v \in EnvVars |-> NoVal]
    /\ appData = NoAppData
    /\ now = StartTime
    /\ ticks = 0
    /\ guard = NoGuard
    /\ minted = NoMint
    /\ users = <<>>
    /\ DUMMY_HASH = [state |-> "incomplete", value |-> NoHash]
    /\ hashRuns = 0
    /\ reqs = << >>
    /\ guarded = 0
    /\ PartsInit

\* create_jwt applied to any user
CodecCreate ==
    /\ pc = "codec"
    /\ \E id \in 1..MaxSub, role \in UserRole :
         LET user == [id |-> id, role |-> role]
             r == create_jwt(user, env, now)
         IN  minted' = [user |-> user, at |-> now, secret |-> env["JWT_SECRET"],
                        ok |-> r.ok, token |-> r.token, err |-> r.err]
    /\ UNCHANGED <<partVars, pc, env, dotenvFile, appData, now, ticks, guard, users, DUMMY_HASH, hashRuns, reqs, guarded>>

\* a request to the guarded index route with any cookie
CodecRequest ==
    /\ pc = "codec"
    /\ \E cookie \in Cookies(now) \cup (IF minted.ok THEN {<<minted.token>>} ELSE {}) :
         guard' = GuardRecord("/", cookie, env, now)
    /\ UNCHANGED <<partVars, pc, env, dotenvFile, appData, now, ticks, minted, users, DUMMY_HASH, hashRuns, reqs, guarded>>

\* the clock advances
CodecTick ==
    /\ pc = "codec"
    /\ ticks < MaxTicks
    /\ \E d \in {1, Leeway, TTL} : now' = now + d
    /\ ticks' = ticks + 1
    /\ UNCHANGED <<partVars, pc, env, dotenvFile, appData, guard, minted, users, DUMMY_HASH, hashRuns, reqs, guarded>>

\* the failure-to-response mapping applied to any JwtError variant
CodecTranslate ==
    /\ pc = "codec"
    /\ \E e \in JwtError :
         guard' = [NoGuard EXCEPT !.route = "<translate>", !.err = e,
                                  !.response = ErrorFrom(AuthErrorFrom(e))]
    /\ UNCHANGED <<partVars, pc, env, dotenvFile, appData, now, ticks, minted, users, DUMMY_HASH, hashRuns, reqs, guarded>>

CodecNext == CodecCreate \/ CodecRequest \/ CodecTick \/ CodecTranslate

SpecCodec == CodecInit /\ [][CodecNext]_vars

\* ---------------------------------------------------- login requests
\* the responses of login.rs post
NoLoginResponse ==
    [status |-> 0, location |-> "", template |-> "", error |-> "", cookie |-> <<>>]
\* data.render_tpl("login", &json!({"error": "Falsche Daten"}))
RejectResponse ==
    [status |-> 200, location |-> "", template |-> "login",
     error |-> "Falsche Daten", cookie |-> <<>>]
\* Err(e.into()) / AppError::Internal
InternalErrorResponse ==
    [status |-> 500, location |-> "", template |-> "", error |-> "", cookie |-> <<>>]

\* SELECT by the id of a looked-up user: the row as it is now, if any
SelectById(table, user) ==
    IF user = <<>> THEN <<>>
    ELSE LET idx == {i \in DOMAIN table : table[i].id = user[1].id}
         IN  IF idx = {} THEN <<>> ELSE <<table[CHOOSE i \in idx : TRUE]>>

\* a login request: its position in post(), the form, the locals of post()
\* and the response; account_then is the row the token's account has in the
\* table at the instant create_jwt runs (<<>>: no such row, or no token)
IdleReq ==
    [step |-> "idle", email |-> <<>>, password |-> "", user |-> <<>>,
     user_exists |-> FALSE, db_error |-> FALSE, dummy_hash |-> <<>>,
     verified |-> <<>>, password_ok |-> FALSE, response |-> NoLoginResponse,
     account_then |-> <<>>]

\* ============================================================== Spec
MaxGuarded == 1
Slots == {1, 2}
\* the emails of the two accounts and one of no account ("g@x")
Emails == {AdminRow.email, UserRow.email, <<"g", "@", "x">>}
Passwords == {"correct horse", DummyPassword}
Salts == {1, 2}

\* ---------------------------------------------------- FrameworkApp::run
\* load_env_file: outside "prod" the .env file supplies the variables the
\* environment does not already hold
load_env_file(e, file) ==
    IF e["ENV"] # "prod"
    THEN [v \in EnvVars |-> IF e[v] = NoVal THEN file[v] ELSE e[v]]
    ELSE e

\* the ENV match of run(): "prod" -> Prod, any other value -> Dev, unset -> Prod
ParseEnv(e) ==
    IF e["ENV"] = NoVal THEN "Prod"
    ELSE IF e["ENV"] = "prod" THEN "Prod" ELSE "Dev"

Init ==
    /\ pc = "start"
    /\ env \in [EnvVars -> {NoVal, "set", "prod", "dev", "k1"}]
    /\ env["JWT_SECRET"] \in {NoVal, "k1"}
    /\ env["DOMAIN"] \in {NoVal, "set"}
    /\ env["DATABASE_URL"] = "set"
    /\ env["ENV"] \in {NoVal, "prod", "dev"}
    /\ dotenvFile \in { [v \in EnvVars |-> IF v = "JWT_SECRET" THEN x ELSE NoVal] :
                        x \in {NoVal, "k1"} }
    /\ env["JWT_SECRET"] # NoVal => dotenvFile["JWT_SECRET"] = NoVal
    /\ appData = NoAppData
    /\ now = StartTime
    /\ ticks = 0
    /\ guard = NoGuard
    /\ minted = NoMint
    /\ users \in InitialTables
    /\ DUMMY_HASH = [state |-> "incomplete", value |-> NoHash]
    /\ hashRuns = 0
    /\ reqs = [r \in Slots |-> IdleReq]
    /\ guarded = 0
    /\ PartsInit

\* run(): load_env_file()
RunLoadEnv ==
    /\ pc = "start"
    /\ env' = load_env_file(env, dotenvFile)
    /\ pc' = "env_loaded"
    /\ UNCHANGED <<partVars, dotenvFile, appData, now, ticks, guard, minted, users,
                   DUMMY_HASH, hashRuns, reqs, guarded>>

\* mutant: JWT_SECRET is not looked at before the server is built
RunConfig_secret_deferred ==
    /\ pc = "env_loaded"
    /\ IF env["DOMAIN"] = NoVal \/ env["DATABASE_URL"] = NoVal
       THEN pc' = "aborted" /\ appData' = appData
       ELSE /\ pc' = "configured"
            /\ appData' = [appData EXCEPT !.domain = env["DOMAIN"],
                                          !.jwt_secret = env["JWT_SECRET"]]
    /\ UNCHANGED <<partVars, env, dotenvFile, now, ticks, guard, minted, users,
                   DUMMY_HASH, hashRuns, reqs, guarded>>

\* run(): the three env::var(..).expect(..) of DOMAIN, JWT_SECRET, DATABASE_URL
RunConfig ==
    /\ pc = "env_loaded"
    /\ IF env["DOMAIN"] = NoVal \/ env["JWT_SECRET"] = NoVal
          \/ env["DATABASE_URL"] = NoVal
       THEN pc' = "aborted" /\ appData' = appData
       ELSE /\ pc' = "configured"
            /\ appData' = [appData EXCEPT !.domain = env["DOMAIN"],
                                          !.jwt_secret = env["JWT_SECRET"]]
    /\ UNCHANGED <<partVars, env, dotenvFile, now, ticks, guard, minted, users,
                   DUMMY_HASH, hashRuns, reqs, guarded>>

\* run(): database, templates, ENV, HttpServer::new(..).bind(..).run()
RunBind ==
    /\ pc = "configured"
    /\ appData' = [appData EXCEPT !.env = ParseEnv(env)]
    /\ pc' = "serving"
    /\ UNCHANGED <<partVars, env, dotenvFile, now, ticks, guard, minted, users,
                   DUMMY_HASH, hashRuns, reqs, guarded>>

\* ------------------------------------------------------- login.rs post
\* the emails typed into the register form so far, as typed and as
\* register normalizes them
TypedEmails ==
    UNION {{regs[k].email, to_lowercase(trim(regs[k].email))} :
             k \in {x \in RegSlots : regs[x].step # "idle"}}

\* sqlx query + match user_res: the form arrives and the account is looked up;
\* a database error other than RowNotFound ends the request. Requests are
\* numbered in the order in which their lookups run.
LoginLookup(r) ==
    /\ pc = "serving"
    /\ reqs[r].step = "idle"
    /\ \A q \in Slots : q < r => reqs[q].step # "idle"
    /\ \E email \in Emails \cup TypedEmails, password \in Passwords,
          dbOk \in BOOLEAN :
         LET user == SelectByEmail(users, email)
         IN  reqs' = [reqs EXCEPT ![r] =
               IF dbOk
               THEN [@ EXCEPT !.step = "get_or_init", !.email = email,
                              !.password = password, !.user = user,
                              !.user_exists = (user # <<>>)]
               ELSE [@ EXCEPT !.step = "done", !.email = email,
                              !.password = password, !.db_error = TRUE,
                              !.response = InternalErrorResponse]]
    /\ UNCHANGED <<partVars, pc, env, dotenvFile, appData, now, ticks, guard, minted,
                   users, DUMMY_HASH, hashRuns, guarded>>

\* mutant: a check-then-set cell, a second caller starts its own initializer
LoginGetOrInit_racy(r) ==
    /\ reqs[r].step = "get_or_init"
    /\ IF DUMMY_HASH.state = "complete"
       THEN /\ reqs' = [reqs EXCEPT ![r].step = "verify",
                                    ![r].dummy_hash = <<DUMMY_HASH.value>>]
            /\ UNCHANGED DUMMY_HASH
       ELSE /\ DUMMY_HASH' = [DUMMY_HASH EXCEPT !.state = "running"]
            /\ reqs' = [reqs EXCEPT ![r].step = "init"]
    /\ UNCHANGED <<partVars, pc, env, dotenvFile, appData, now, ticks, guard, minted,
                   users, hashRuns, guarded>>

\* DUMMY_HASH.get_or_init: the value if set; else this caller becomes the
\* initializer; while another caller initializes, this one blocks
LoginGetOrInit(r) ==
    /\ reqs[r].step = "get_or_init"
    /\ DUMMY_HASH.state # "running"
    /\ IF DUMMY_HASH.state = "complete"
       THEN /\ reqs' = [reqs EXCEPT ![r].step = "verify",
                                    ![r].dummy_hash = <<DUMMY_HASH.value>>]
            /\ UNCHANGED DUMMY_HASH
       ELSE /\ DUMMY_HASH' = [DUMMY_HASH EXCEPT !.state = "running"]
            /\ reqs' = [reqs EXCEPT ![r].step = "init"]
    /\ UNCHANGED <<partVars, pc, env, dotenvFile, appData, now, ticks, guard, minted,
                   users, hashRuns, guarded>>

\* the closure of get_or_init: hash_password(..) or, should it fail, the
\* hard-coded failsafe; the cell is set and the caller gets the value
LoginInit(r) ==
    /\ reqs[r].step = "init"
    /\ \E value \in {hash_password(DummyPassword, salt) : salt \in Salts}
                    \cup {FailsafeHash} :
         /\ DUMMY_HASH' = [state |-> "complete", value |-> value]
         /\ reqs' = [reqs EXCEPT ![r].step = "verify", ![r].dummy_hash = <<value>>]
    /\ hashRuns' = hashRuns + 1
    /\ UNCHANGED <<partVars, pc, env, dotenvFile, appData, now, ticks, guard, minted,
                   users, guarded>>

\* mutant: without an account nothing is verified
LoginVerify_skip_unknown(r) ==
    /\ reqs[r].step = "verify"
    /\ IF reqs[r].user = <<>>
       THEN reqs' = [reqs EXCEPT ![r].step = "decide"]
       ELSE LET hash == reqs[r].user[1].password
            IN  reqs' = [reqs EXCEPT
                   ![r].step = "decide",
                   ![r].verified = Append(@, hash),
                   ![r].password_ok = verify_password(reqs[r].password, hash)]
    /\ UNCHANGED <<partVars, pc, env, dotenvFile, appData, now, ticks, guard, minted,
                   users, DUMMY_HASH, hashRuns, guarded>>

\* hash = the user's password or the dummy hash; verify_password(..)
LoginVerify(r) ==
    /\ reqs[r].step = "verify"
    /\ LET hash == IF reqs[r].user # <<>> THEN reqs[r].user[1].password
                   ELSE reqs[r].dummy_hash[1]
       IN  reqs' = [reqs EXCEPT
               ![r].step = "decide",
               ![r].verified = Append(@, hash),
               ![r].password_ok = verify_password(reqs[r].password, hash)]
    /\ UNCHANGED <<partVars, pc, env, dotenvFile, appData, now, ticks, guard, minted,
                   users, DUMMY_HASH, hashRuns, guarded>>

\* mutant: the cookie is marked Secure in every mode
SessionCookie_always_secure(jwt, data) ==
    [name |-> "token", value |-> jwt, domain |-> data.domain, path |-> "/",
     same_site |-> "Strict", secure |-> TRUE,
     max_age |-> 3600, http_only |-> TRUE]

\* Cookie::build("token", jwt) ... finish()
SessionCookie(jwt, data) ==
    [name |-> "token", value |-> jwt, domain |-> data.domain, path |-> "/",
     same_site |-> "Strict", secure |-> (data.env # "Dev"),
     max_age |-> 3600, http_only |-> TRUE]

\* mutant: the role of the account is not looked at
LoginOutcome_any_role(user, user_exists, password_ok, e, data, t) ==
    IF ~user_exists \/ ~password_ok THEN RejectResponse
    ELSE IF user = <<>> THEN RejectResponse
    ELSE LET jwt == create_jwt(user[1], e, t)
         IN  IF ~jwt.ok THEN InternalErrorResponse
             ELSE [status |-> 303, location |-> "/", template |-> "",
                   error |-> "", cookie |-> <<SessionCookie(jwt.token, data)>>]

\* mutant: an unknown email gets a message of its own
LoginOutcome_tells_unknown(user, user_exists, password_ok, e, data, t) ==
    IF ~user_exists THEN [RejectResponse EXCEPT !.error = "Unbekannte E-Mail"]
    ELSE IF ~password_ok \/ user[1].role # UserRole_Admin THEN RejectResponse
    ELSE LET jwt == create_jwt(user[1], e, t)
         IN  IF ~jwt.ok THEN InternalErrorResponse
             ELSE [status |-> 303, location |-> "/", template |-> "",
                   error |-> "", cookie |-> <<SessionCookie(jwt.token, data)>>]

\* what the rest of post() answers for a looked-up user and a verify result
LoginOutcome(user, user_exists, password_ok, e, data, t) ==
    IF ~user_exists \/ ~password_ok
       \/ (IF user = <<>> THEN TRUE ELSE user[1].role # UserRole_Admin)
    THEN RejectResponse
    ELSE IF user = <<>> THEN RejectResponse
    ELSE LET jwt == create_jwt(user[1], e, t)
         IN  IF ~jwt.ok THEN InternalErrorResponse
             ELSE [status |-> 303, location |-> "/", template |-> "",
                   error |-> "", cookie |-> <<SessionCookie(jwt.token, data)>>]

\* the decision: the login view with the generic error, or create_jwt, the
\* cookie and the redirect to "/"
LoginDecide(r) ==
    /\ reqs[r].step = "decide"
    /\ LET response == LoginOutcome(reqs[r].user, reqs[r].user_exists,
                                     reqs[r].password_ok, env, appData, now)
       IN  reqs' = [reqs EXCEPT
              ![r].step = "done",
              ![r].response = response,
              ![r].account_then = IF response.cookie # <<>>
                                  THEN SelectById(users, reqs[r].user)
                                  ELSE <<>>]
    /\ UNCHANGED <<partVars, pc, env, dotenvFile, appData, now, ticks, guard, minted,
                   users, DUMMY_HASH, hashRuns, guarded>>

\* -------------------------------------------------- guarded routes
\* the cookies a client can present: none, a string that is no token, a
\* token signed with a key of its own, and any cookie a login has set
ClientCookies ==
    {<<>>, <<NoToken>>,
     <<[wf |-> TRUE, alg |-> "HS256", key |-> "evil", sub |-> 1, role |-> "Admin",
        exp |-> now + TTL]>>} \cup
    { <<reqs[r].response.cookie[1].value>> :
        r \in {x \in Slots : reqs[x].response.cookie # <<>>} }

\* index.rs: GET /
ServeIndex ==
    /\ pc = "serving"
    /\ \E cookie \in ClientCookies : guard' = GuardRecord("/", cookie, env, now)
    /\ guarded' = guarded + 1
    /\ UNCHANGED <<partVars, pc, env, dotenvFile, appData, now, ticks, minted, users,
                   DUMMY_HASH, hashRuns, reqs>>

\* users.rs post_user: POST /users/{id} with a role
ServePostUser ==
    /\ pc = "serving"
    /\ \E cookie \in ClientCookies :
         LET g == GuardRecord("post /users/{id}", cookie, env, now)
         IN  /\ guard' = g
             /\ IF g.handlerRan /\ g.claims.role = UserRole_Admin
                THEN \E user_id \in 1..MaxSub, role \in UserRole :
                        users' = UpdateRole(users, user_id, role)
                ELSE users' = users
    /\ guarded' = guarded + 1
    /\ UNCHANGED <<partVars, pc, env, dotenvFile, appData, now, ticks, minted,
                   DUMMY_HASH, hashRuns, reqs>>

\* users.rs delete_user: DELETE /users/{id}
ServeDeleteUser ==
    /\ pc = "serving"
    /\ \E cookie \in ClientCookies :
         LET g == GuardRecord("delete /users/{id}", cookie, env, now)
         IN  /\ guard' = g
             /\ IF g.handlerRan /\ g.claims.role = UserRole_Admin
                THEN \E user_id \in 1..MaxSub : users' = DeleteById(users, user_id)
                ELSE users' = users
    /\ guarded' = guarded + 1
    /\ UNCHANGED <<partVars, pc, env, dotenvFile, appData, now, ticks, minted,
                   DUMMY_HASH, hashRuns, reqs>>

\* the three guarded routes, for as many requests as the run is bounded to
Index == guarded < MaxGuarded /\ ServeIndex
post_user == guarded < MaxGuarded /\ ServePostUser
delete_user == guarded < MaxGuarded /\ ServeDeleteUser

\* the clock advances
Tick ==
    /\ pc = "serving"
    /\ ticks < MaxTicks
    /\ now' = now + TTL + 1
    /\ ticks' = ticks + 1
    /\ UNCHANGED <<partVars, pc, env, dotenvFile, appData, guard, minted, users,
                   DUMMY_HASH, hashRuns, reqs, guarded>>

Next ==
    \/ RunLoadEnv
    \/ RunConfig
    \/ RunBind
    \/ \E r \in Slots : LoginLookup(r)
    \/ \E r \in Slots : LoginGetOrInit(r)
    \/ \E r \in Slots : LoginInit(r)
    \/ \E r \in Slots : LoginVerify(r)
    \/ \E r \in Slots : LoginDecide(r)
    \/ Index
    \/ post_user
    \/ delete_user
    \/ Tick

Spec == Init /\ [][Next]_vars

\* ------------------------------------------------------ register.rs post
\* the forms: an email with capital letters, one with white space at its
\* end, one without '@'; a password that is too short, one that is long
\* enough, and a repetition that differs
RegEmails == {<<"N", "@", "x">>, <<"n", "@", "x", " ">>, <<"n", "x">>}
RegForms ==
    {[email |-> e, password |-> p[1], repeat_password |-> p[2]] :
        e \in RegEmails,
        p \in {<<"short", "short">>, <<"correct horse", "correct horse">>,
               <<"correct horse", DummyPassword>>}}

\* the three checks of the form, in the order of post(); "" when it passes.
\* (The messages are written here without their umlauts.)
RegisterValidate(form) ==
    LET email == to_lowercase(trim(form.email))
    IN  IF Len(form.password) < 8
        THEN "Passwort muss mindestens 8 Zeichen lang sein"
        ELSE IF form.password # form.repeat_password
        THEN "Passwoerter stimmen nicht ueberein"
        ELSE IF ~contains(email, "@") \/ email = <<>>
        THEN "Ungueltige E-Mail-Adresse"
        ELSE ""

\* last_insert_rowid() of an INSERT: one more than the largest id
NextId(table) ==
    IF table = <<>> THEN 1
    ELSE 1 + table[CHOOSE i \in DOMAIN table :
                      \A j \in DOMAIN table : table[j].id <= table[i].id].id

\* post() up to and including the SELECT: the checks of the form, the
\* normalized email, hash_password, "SELECT id FROM users WHERE email = ?"
\* and the answer when a row exists. Requests are numbered in the order in
\* which they arrive.
RegisterCheck(k) ==
    /\ pc = "serving"
    /\ regs[k].step = "idle"
    /\ \A q \in RegSlots : q < k => regs[q].step # "idle"
    /\ \E form \in RegForms, hashOk \in BOOLEAN, dbOk \in BOOLEAN :
         LET email == to_lowercase(trim(form.email))
             error == RegisterValidate(form)
             arrived == [regs[k] EXCEPT !.step = "done", !.email = form.email,
                            !.password = form.password,
                            !.repeat_password = form.repeat_password]
         IN  regs' = [regs EXCEPT ![k] =
               IF error # ""
               THEN [arrived EXCEPT !.response = RegisterView(error)]
               ELSE IF ~hashOk \/ ~dbOk
               THEN [arrived EXCEPT !.normalized = email,
                                    !.response = RegisterInternalError]
               ELSE IF SelectByEmail(users, email) # <<>>
               THEN [arrived EXCEPT !.normalized = email,
                        !.response = RegisterView("E-Mail wird bereits verwendet")]
               ELSE [arrived EXCEPT !.step = "insert", !.normalized = email,
                        !.hashed_password = hash_password(form.password, 2 + k)]]
    /\ UNCHANGED <<pc, env, dotenvFile, appData, now, ticks, guard, minted,
                   users, DUMMY_HASH, hashRuns, reqs, guarded, limiter,
                   limited, parsed, checked>>

\* mutant: the new account is an Admin
RegisterInsert_as_admin(k) ==
    /\ pc = "serving"
    /\ regs[k].step = "insert"
    /\ \E dbOk \in BOOLEAN :
         IF dbOk
         THEN /\ users' = Append(users,
                    [id |-> NextId(users), email |-> regs[k].normalized,
                     password |-> regs[k].hashed_password,
                     role |-> UserRole_Admin])
              /\ regs' = [regs EXCEPT ![k].step = "done",
                                      ![k].response = RegisterRedirect,
                                      ![k].inserted = NextId(users)]
         ELSE /\ users' = users
              /\ regs' = [regs EXCEPT ![k].step = "done",
                                      ![k].response = RegisterInternalError]
    /\ UNCHANGED <<pc, env, dotenvFile, appData, now, ticks, guard, minted,
                   DUMMY_HASH, hashRuns, reqs, guarded, limiter, limited,
                   parsed, checked>>

\* post() from the INSERT on: "INSERT INTO users (email, password, role)"
\* with UserRole::User and the redirect to /login, or the error of the
\* database (the one a UNIQUE index on email, if the schema has one, raises
\* for a second row of an email included)
RegisterInsert(k) ==
    /\ pc = "serving"
    /\ regs[k].step = "insert"
    /\ \E dbOk \in BOOLEAN :
         IF dbOk
         THEN /\ users' = Append(users,
                    [id |-> NextId(users), email |-> regs[k].normalized,
                     password |-> regs[k].hashed_password,
                     role |-> UserRole_User])
              /\ regs' = [regs EXCEPT ![k].step = "done",
                                      ![k].response = RegisterRedirect,
                                      ![k].inserted = NextId(users)]
         ELSE /\ users' = users
              /\ regs' = [regs EXCEPT ![k].step = "done",
                                      ![k].response = RegisterInternalError]
    /\ UNCHANGED <<pc, env, dotenvFile, appData, now, ticks, guard, minted,
                   DUMMY_HASH, hashRuns, reqs, guarded, limiter, limited,
                   parsed, checked>>

\* a running server: run() has completed with ENV=prod and all variables set
Serving(table) ==
    /\ pc = "serving"
    /\ env = [v \in EnvVars |-> IF v = "JWT_SECRET" THEN "k1"
                                ELSE IF v = "ENV" THEN "prod" ELSE "set"]
    /\ dotenvFile = [v \in EnvVars |-> NoVal]
    /\ appData = [env |-> "Prod", domain |-> "set", jwt_secret |-> "k1"]
    /\ now = StartTime
    /\ ticks = 0
    /\ guard = NoGuard
    /\ minted = NoMint
    /\ users = table
    /\ DUMMY_HASH = [state |-> "incomplete", value |-> NoHash]
    /\ hashRuns = 0
    /\ reqs = [r \in Slots |-> IdleReq]
    /\ guarded = 0
    /\ PartsInit

\* ====================================================== SpecNoAdmin
\* A running server whose table holds no Admin; two register requests, one
\* login request and the guarded routes.
NoAdminInit == \E table \in {<<>>, <<UserRow>>} : Serving(table)

NoAdminNext ==
    \/ \E k \in RegSlots : RegisterCheck(k)
    \/ \E k \in RegSlots : RegisterInsert(k)
    \/ LoginLookup(1)
    \/ LoginGetOrInit(1)
    \/ LoginInit(1)
    \/ LoginVerify(1)
    \/ LoginDecide(1)
    \/ Index
    \/ post_user
    \/ delete_user

SpecNoAdmin == NoAdminInit /\ [][NoAdminNext]_vars

\* ==================================================== SpecAgreement
\* A running server with one Admin; one register request, two login
\* requests and the route that changes a role.
AgreementInit == Serving(<<AdminRow>>)

AgreementNext ==
    \/ RegisterCheck(1)
    \/ RegisterInsert(1)
    \/ \E r \in Slots : LoginLookup(r)
    \/ \E r \in Slots : LoginGetOrInit(r)
    \/ \E r \in Slots : LoginInit(r)
    \/ \E r \in Slots : LoginVerify(r)
    \/ \E r \in Slots : LoginDecide(r)
    \/ post_user

SpecAgreement == AgreementInit /\ [][AgreementNext]_vars

\* ====================================================== SpecSession
\* A running server with an Admin and a User; one login request, the
\* guarded routes for two requests, and the clock.
MaxSessionGuarded == 2

SessionInit == Serving(<<AdminRow, UserRow>>)

SessionIndex == guarded < MaxSessionGuarded /\ ServeIndex
SessionPostUser == guarded < MaxSessionGuarded /\ ServePostUser
SessionDeleteUser == guarded < MaxSessionGuarded /\ ServeDeleteUser

SessionNext ==
    \/ LoginLookup(1)
    \/ LoginGetOrInit(1)
    \/ LoginInit(1)
    \/ LoginVerify(1)
    \/ LoginDecide(1)
    \/ SessionIndex
    \/ SessionPostUser
    \/ SessionDeleteUser
    \/ Tick

SpecSession == SessionInit /\ [][SessionNext]_vars

\* ========================================================= SpecPure
\* The conversions and verify_password, applied to inputs of every kind.
RoleTexts ==
    {<<"a", "d", "m", "i", "n">>,
     <<"A", "d", "m", "i", "n">>,
     <<"A", "D", "M", "I", "N">>,
     <<"a", "D", "m", "I", "n">>,
     <<"u", "s", "e", "r">>,
     <<"U", "S", "E", "R">>,
     <<"n", "o", "n", "e">>,
     <<"N", "o", "n", "e">>,
     <<"r", "o", "o", "t">>,
     <<"a", "d", "m">>,
     <<"a", "d", "m", "i", "n", " ">>,
     <<" ", "a", "d", "m", "i", "n">>,
     <<"a", "d", "m", "i", "n", "s">>,
     <<>>}

\* hashes verify_encoded cannot use: not an encoded hash, or with parameters
\* it does not support; among them damaged encodings of real passwords
MalformedHashes ==
    {NoHash} \cup {[ok |-> FALSE, salt |-> s, pw |-> p] : s \in Salts, p \in Passwords}

StoredHashes ==
    {hash_password(p, s) : p \in Passwords, s \in Salts}
        \cup {FailsafeHash} \cup MalformedHashes

PureInit ==
    /\ pc = "pure"
    /\ env = [v \in EnvVars |-> IF v = "JWT_SECRET" THEN "k1"
                                ELSE IF v = "ENV" THEN "prod" ELSE "set"]
    /\ dotenvFile = [v \in EnvVars |-> NoVal]
    /\ appData = [env |-> "Prod", domain |-> "set", jwt_secret |-> "k1"]
    /\ now = StartTime
    /\ ticks = 0
    /\ guard = NoGuard
    /\ minted = NoMint
    /\ users = <<>>
    /\ DUMMY_HASH = [state |-> "incomplete", value |-> NoHash]
    /\ hashRuns = 0
    /\ reqs = << >>
    /\ guarded = 0
    /\ PartsInit

\* text.parse::<UserRole>() and UserRole::from(text)
ParseRole ==
    /\ pc = "pure"
    /\ \E text \in RoleTexts :
         \/ parsed' = [text |-> text, via |-> "FromStr",
                       ok |-> from_str(text).ok, role |-> from_str(text).role]
         \/ parsed' = [text |-> text, via |-> "From", ok |-> TRUE,
                       role |-> From_String(text)]
    /\ UNCHANGED <<pc, env, dotenvFile, appData, now, ticks, guard, minted,
                   users, DUMMY_HASH, hashRuns, reqs, guarded, limiter,
                   limited, checked, regs>>

\* verify_password on a stored hash of an account, and what post() of
\* login.rs answers with that result for the account
VerifyStored ==
    /\ pc = "pure"
    /\ \E password \in Passwords, hash \in StoredHashes, role \in UserRole :
         LET user == [id |-> 1, email |-> AdminRow.email, password |-> hash,
                      role |-> role]
             password_ok == verify_password(password, user.password)
             response == LoginOutcome(<<user>>, TRUE, password_ok, env,
                                      appData, now)
         IN  checked' = [password |-> password, hash |-> hash, role |-> role,
                         result |-> password_ok, status |-> response.status,
                         error |-> response.error,
                         issued |-> response.cookie # <<>>]
    /\ UNCHANGED <<pc, env, dotenvFile, appData, now, ticks, guard, minted,
                   users, DUMMY_HASH, hashRuns, reqs, guarded, limiter,
                   limited, parsed, regs>>

PureNext == ParseRole \/ VerifyStored

SpecPure == PureInit /\ [][PureNext]_vars

\* ====================================================== SpecLimiter
\* The auth rate limiter in front of the login-class routes, with its clock.
MaxLimiterTicks == 2

LimiterInit ==
    /\ pc = "limiter"
    /\ env = [v \in EnvVars |-> NoVal]
    /\ dotenvFile = [v \in EnvVars |-> NoVal]
    /\ appData = NoAppData
    /\ now = StartTime
    /\ ticks = 0
    /\ guard = NoGuard
    /\ minted = NoMint
    /\ users = <<>>
    /\ DUMMY_HASH = [state |-> "incomplete", value |-> NoHash]
    /\ hashRuns = 0
    /\ reqs = << >>
    /\ guarded = 0
    /\ PartsInit

\* a request from addr to a route wrapped in auth_rate_limiter(): Governor
\* answers 429 itself, or hands the request on to the route
LimitedRequest(addr) ==
    /\ pc = "limiter"
    /\ LET c == GovernorCheck(auth_rate_limiter, limiter[addr].tat, now)
       IN  /\ limiter' = [limiter EXCEPT ![addr] =
                  IF c.conforms THEN [tat |-> c.tat, last |-> now] ELSE @]
           /\ limited' = [addr |-> addr, at |-> now, prev |-> limiter[addr].last,
                          admitted |-> c.conforms,
                          status |-> IF c.conforms THEN 0 ELSE 429,
                          reached |-> c.conforms]
    /\ UNCHANGED <<pc, env, dotenvFile, appData, now, ticks, guard, minted,
                   users, DUMMY_HASH, hashRuns, reqs, guarded, parsed, checked,
                   regs>>

\* the clock advances, to just before, onto or past the end of a window
LimiterTick ==
    /\ pc = "limiter"
    /\ ticks < MaxLimiterTicks
    /\ \E d \in {1, auth_rate_limiter.seconds_per_request - 1,
                 auth_rate_limiter.seconds_per_request} : now' = now + d
    /\ ticks' = ticks + 1
    /\ UNCHANGED <<pc, env, dotenvFile, appData, guard, minted, users,
                   DUMMY_HASH, hashRuns, reqs, guarded, partVars>>

LimiterNext == (\E addr \in Addrs : LimitedRequest(addr)) \/ LimiterTick

SpecLimiter == LimiterInit /\ [][LimiterNext]_vars

\* ================================================================ claims
GuardedRoutes == {"/", "post /users/{id}", "delete /users/{id}"}

\* the cookie of the last guarded request is a token that parses, is HS256,
\* is signed with the process secret and carries a payload that is a Claims
WellSigned(g) ==
    /\ g.cookie # <<>>
    /\ g.secret # NoVal
    /\ g.cookie[1].wf
    /\ g.cookie[1].alg = "HS256"
    /\ g.cookie[1].key = g.secret
    /\ g.cookie[1].role \in RoleVariantNames

\* the cookie is a token whose signature does not verify under the secret
SignatureFails(g) ==
    /\ g.cookie # <<>>
    /\ g.secret # NoVal
    /\ g.cookie[1].wf
    /\ (g.cookie[1].alg # "HS256" \/ g.cookie[1].key # g.secret)

LoginRedirect == [status |-> 302, location |-> "/login", body |-> ""]

\* C1: on a guarded route the handler runs only for a correctly signed,
\* unexpired token whose role is Admin; a correctly signed, unexpired token
\* whose role is User or None yields Unauthorized, the redirect to /login,
\* and the handler does not run.
C1_GuardAdminOnly ==
    guard.route \in GuardedRoutes =>
      /\ guard.handlerRan =>
            /\ guard.ok
            /\ WellSigned(guard)
            /\ guard.cookie[1].exp >= guard.at
            /\ guard.cookie[1].role = "Admin"
            /\ guard.claims.role = UserRole_Admin
      /\ (WellSigned(guard) /\ guard.cookie[1].exp >= guard.at
            /\ guard.cookie[1].role \in {"User", "None"}) =>
            /\ guard.err = "Unauthorized"
            /\ guard.response = LoginRedirect
            /\ ~guard.handlerRan

C1_Witness ==
    /\ guard.route = "/"
    /\ WellSigned(guard)
    /\ guard.cookie[1].exp >= guard.at
    /\ guard.cookie[1].role = "User"
    /\ guard.err = "Unauthorized"
    /\ ~guard.handlerRan

\* C2: a token whose signature does not verify under the process secret
\* makes read_jwt return the decoding failure, never claims and never
\* JwtExpired, whatever expiry the token claims.
C2_SignatureBeforeExpiry ==
    (guard.route \in GuardedRoutes /\ SignatureFails(guard)) =>
      /\ ~guard.read.ok
      /\ guard.read.err = "JwtDecodingError"

C2_Witness ==
    /\ guard.route = "/"
    /\ SignatureFails(guard)
    /\ guard.cookie[1].exp < guard.at
    /\ guard.read.err = "JwtDecodingError"

\* C3 as stated: for a correctly signed token read_jwt returns JwtExpired
\* exactly when exp < now and the claims exactly when exp >= now.
C3_ExpiredExactlyWhenPast ==
    (guard.route \in GuardedRoutes /\ WellSigned(guard)) =>
      /\ (guard.cookie[1].exp < guard.at) <=>
            (~guard.read.ok /\ guard.read.err = "JwtExpired")
      /\ (guard.cookie[1].exp >= guard.at) <=> guard.read.ok

\* C5: every failure variant maps to one response: the per-request
\* failures to the redirect to /login, the configuration failures to the
\* server error, and nothing else.
PerRequestFailures == {"TokenNotFound", "JwtExpired", "JwtDecodingError", "Unauthorized"}
ConfigurationFailures == {"SecretNotSet", "ExpirationError", "JwtEncodingError"}

C5_MappingTotal ==
    (guard.route # "-" /\ ~guard.ok) =>
      /\ guard.err \in PerRequestFailures \cup ConfigurationFailures
      /\ guard.err \in PerRequestFailures => guard.response = LoginRedirect
      /\ guard.err \in ConfigurationFailures =>
            /\ guard.response.status = 500
            /\ guard.response.location = ""

C5_Witness ==
    /\ guard.route = "/"
    /\ guard.err = "SecretNotSet"
    /\ guard.response.status = 500

\* C6: create_jwt followed at once by read_jwt under the same secret returns
\* claims with the subject and the role of the user and with
\* exp = issuance time + 43200, which is after the issuance time.
C6_RoundTrip ==
    (minted.ok /\ guard.route \in GuardedRoutes /\ guard.cookie = <<minted.token>>
       /\ guard.at = minted.at) =>
      /\ guard.read.ok
      /\ guard.read.claims.sub = minted.user.id
      /\ guard.read.claims.role = minted.user.role
      /\ guard.read.claims.exp = minted.at + TTL
      /\ guard.read.claims.exp > minted.at
      /\ guard.read.claims.exp > guard.at

C6_Witness ==
    /\ minted.ok
    /\ minted.user.role = UserRole_User
    /\ guard.route = "/"
    /\ guard.cookie = <<minted.token>>
    /\ guard.at = minted.at
    /\ guard.read.ok

\* ------------------------------------------------------------ login claims
\* a login request whose lookup completed and that has been answered
Completed(r) == reqs[r].step = "done" /\ ~reqs[r].db_error
Issued(r) == reqs[r].response.cookie # <<>>

\* found, the submitted password is the one the stored hash was made from,
\* and the found record is an Admin
Acceptable(r) ==
    /\ reqs[r].user # <<>>
    /\ reqs[r].user[1].password.ok
    /\ reqs[r].user[1].password.pw = reqs[r].password
    /\ reqs[r].user[1].role = UserRole_Admin

IssuesIffAcceptable(r) ==
    /\ Issued(r) <=> Acceptable(r)
    /\ Issued(r) =>
          /\ reqs[r].response.status = 303
          /\ reqs[r].response.location = "/"
          /\ reqs[r].response.cookie[1].name = "token"
          /\ reqs[r].response.cookie[1].value.role = "Admin"
          /\ reqs[r].response.cookie[1].value.sub = reqs[r].user[1].id
    /\ ~Issued(r) => reqs[r].response.status # 303

\* C4 as stated: a token is issued exactly for found + verified + Admin, and
\* every issued token carries role Admin and the id of an account that
\* exists at the instant of issuance.
C4_Original ==
    \A r \in Slots : Completed(r) =>
      /\ IssuesIffAcceptable(r)
      /\ Issued(r) => reqs[r].account_then # <<>>

\* C4 amended: a token is issued exactly when the lookup found a record, the
\* password verifies against that record's hash and that record's role is
\* Admin; an issued token carries role Admin and the id of the record the
\* lookup returned (which may be gone by the time of issuance).
C4_IssuesIffAdminVerified ==
    \A r \in Slots : Completed(r) => IssuesIffAcceptable(r)

C4_Witness ==
    \E r \in Slots :
      /\ Completed(r)
      /\ Issued(r)
      /\ reqs[r].response.status = 303

\* why a completed login was rejected
Reason(r) ==
    IF reqs[r].user = <<>> THEN "unknown email"
    ELSE IF reqs[r].user[1].password.pw # reqs[r].password THEN "wrong password"
    ELSE IF reqs[r].user[1].role # UserRole_Admin THEN "wrong role"
    ELSE "none"

\* C7: two logins rejected for different reasons get the same response:
\* the login view with the same message, the same status and no cookie.
C7_RejectionsIndistinguishable ==
    \A a \in Slots, b \in Slots :
      (Completed(a) /\ Completed(b) /\ Reason(a) # "none" /\ Reason(b) # "none") =>
        /\ reqs[a].response = reqs[b].response
        /\ reqs[a].response.template = "login"
        /\ reqs[a].response.cookie = <<>>

C7_Witness ==
    \E a \in Slots, b \in Slots :
      /\ Completed(a) /\ Completed(b)
      /\ Reason(a) = "unknown email"
      /\ Reason(b) = "wrong role"
      /\ reqs[a].response = reqs[b].response

\* C8: a login whose lookup completed reaches the decision with exactly one
\* verify_password call behind it: against the stored hash of the account if
\* there is one, against the dummy hash if not; and never more than one.
C8_VerifyExactlyOnce ==
    \A r \in Slots :
      /\ Len(reqs[r].verified) <= 1
      /\ (reqs[r].step = "decide" \/ Completed(r)) =>
            /\ Len(reqs[r].verified) = 1
            /\ reqs[r].verified[1] =
                  IF reqs[r].user # <<>> THEN reqs[r].user[1].password
                  ELSE DUMMY_HASH.value
      /\ reqs[r].step \in {"idle", "get_or_init", "init", "verify"} =>
            reqs[r].verified = <<>>

C8_Witness ==
    \E r \in Slots :
      /\ Completed(r)
      /\ reqs[r].user = <<>>
      /\ DUMMY_HASH.state = "complete"
      /\ reqs[r].verified = <<DUMMY_HASH.value>>

\* C9: the initializer of DUMMY_HASH runs at most once, every caller gets
\* the value of the cell, and the cell never changes once it is set.
DummyOnce ==
    /\ hashRuns <= 1
    /\ DUMMY_HASH.state = "complete" => hashRuns = 1
    /\ \A r \in Slots :
          reqs[r].dummy_hash # <<>> =>
            /\ DUMMY_HASH.state = "complete"
            /\ reqs[r].dummy_hash = <<DUMMY_HASH.value>>

DummyStable == DUMMY_HASH.state = "complete" => DUMMY_HASH' = DUMMY_HASH

C9_DummyHashInitOnce == []DummyOnce /\ [][DummyStable]_vars

C9_Witness ==
    \E a \in Slots, b \in Slots :
      /\ a # b
      /\ reqs[a].dummy_hash # <<>>
      /\ reqs[b].dummy_hash = reqs[a].dummy_hash
      /\ hashRuns = 1

\* C10: the server is configured and bound only with JWT_SECRET set; a
\* request is served only by a bound server; no request finds the secret
\* missing; without the secret run() ends before anything is bound.
C10_SecretCheckedAtStartup ==
    /\ pc \in {"configured", "serving"} =>
          /\ env["JWT_SECRET"] # NoVal
          /\ appData.jwt_secret = env["JWT_SECRET"]
    /\ (guard.route # "-" \/ \E r \in Slots : reqs[r].step # "idle") =>
          pc = "serving"
    /\ guard.err # "SecretNotSet"
    /\ guard.read.err # "SecretNotSet"
    /\ \A r \in Slots : Completed(r) => reqs[r].response.status # 500
    /\ env["JWT_SECRET"] = NoVal => pc \in {"start", "env_loaded", "aborted"}

C10_Witness ==
    /\ pc = "aborted"
    /\ env["JWT_SECRET"] = NoVal
    /\ env["DOMAIN"] # NoVal
    /\ env["DATABASE_URL"] # NoVal

C12_CookieAttributes ==
    \A r \in Slots :
        Issued(r) =>
          LET cookie == reqs[r].response.cookie[1]
          IN  /\ cookie.name = "token"
              /\ cookie.path = "/"
              /\ cookie.same_site = "Strict"
              /\ cookie.http_only
              /\ cookie.secure <=> appData.env = "Prod"
              /\ appData.env = "Prod" <=> env["ENV"] \in {NoVal, "prod"}
              /\ appData.env \in {"Prod", "Dev"}

\* a cookie issued without Secure, under an ENV value other than "prod"
C12_Witness ==
    \E r \in Slots :
        /\ Issued(r)
        /\ env["ENV"] = "dev"
        /\ ~reqs[r].response.cookie[1].secure

\* --------------------------------------------------------- role text claim
\* two texts that differ at most in the case of their letters
SameIgnoringCase(s, t) ==
    /\ Len(s) = Len(t)
    /\ \A i \in DOMAIN s :
          \/ s[i] = t[i]
          \/ \E k \in DOMAIN UpperCase :
                {s[i], t[i]} = {UpperCase[k], LowerCase[k]}

C14_VerifyNeverErrs ==
    checked # NoChecked =>
      /\ checked.result \in BOOLEAN
      /\ (~checked.hash.ok \/ checked.hash = FailsafeHash) =>
            /\ ~checked.result
            /\ ~checked.issued
            /\ checked.status = RejectResponse.status
            /\ checked.error = RejectResponse.error

\* an Admin account whose stored hash is a damaged encoding of the very
\* password submitted
C14_Witness ==
    /\ checked # NoChecked
    /\ ~checked.hash.ok
    /\ checked.hash.pw = checked.password
    /\ checked.role = UserRole_Admin
    /\ ~checked.result
    /\ ~checked.issued

\* ------------------------------------------------------- session claim
\* the latest guarded request presented the token a login has issued
PresentsIssued ==
    /\ guard.route # "-"
    /\ guard.cookie # <<>>
    /\ \E r \in Slots :
          /\ Issued(r)
          /\ guard.cookie[1] = reqs[r].response.cookie[1].value

\* the account a token names is an Admin in the table now
StillAdmin(token) ==
    \E i \in DOMAIN users :
        users[i].id = token.sub /\ users[i].role = UserRole_Admin

\* C15: a request that presents a token issued by login is accepted exactly
\* while the time of the request has not passed the expiry in the token,
\* whatever has become of the token's account in the table since.
C15_GuardIgnoresStorage ==
    PresentsIssued =>
      /\ guard.cookie[1].role = "Admin"
      /\ guard.ok <=> guard.at <= guard.cookie[1].exp
      /\ guard.handlerRan = guard.ok

\* the second guarded request of a run is accepted with the token of an
\* account that an earlier request has deleted or given another role
C15_Witness ==
    /\ PresentsIssued
    /\ guarded = 2
    /\ guard.route = "/"
    /\ guard.ok
    /\ ~StillAdmin(guard.cookie[1])

\* ------------------------------------------------------ bootstrap claim
\* C16: from a table without an Admin, no login issues a token, no guarded
\* request is accepted, and no row becomes an Admin.
C16_NoAdminBootstrap ==
    /\ \A r \in Slots : ~Issued(r)
    /\ ~guard.ok
    /\ ~guard.handlerRan
    /\ \A i \in DOMAIN users : users[i].role # UserRole_Admin

\* a registered account logs in with its email as stored and its password,
\* and is turned away; a request to change a role has been made
C16_Witness ==
    /\ \E k \in RegSlots :
          /\ regs[k].inserted # 0
          /\ Completed(1)
          /\ reqs[1].user # <<>>
          /\ reqs[1].user[1].id = regs[k].inserted
          /\ reqs[1].password_ok
          /\ ~Issued(1)
    /\ guard.route = "post /users/{id}"

\* ------------------------------------------------ register uniqueness claim
\* C17: no two rows of users hold the same email.
C17_UniqueEmails ==
    \A i, j \in DOMAIN users : users[i].email = users[j].email => i = j

\* ---------------------------------------------- register/login email claim
\* register request k has created the account that is now an Admin, and
\* login request r submits the email and the password typed into k's form
SameCredentials(r, k) ==
    /\ regs[k].inserted # 0
    /\ \E i \in DOMAIN users :
          /\ users[i].id = regs[k].inserted
          /\ users[i].role = UserRole_Admin
    /\ reqs'[r].email = regs[k].email
    /\ reqs'[r].password = regs[k].password

\* C18: when a login submits the email and password that a registration
\* was made with, and the registered account is an Admin, the lookup of the
\* login finds that account.
LookupFindsRegistered ==
    \A r \in Slots, k \in RegSlots :
        (/\ reqs[r].step = "idle"
         /\ reqs'[r].step = "get_or_init"
         /\ SameCredentials(r, k))
        => /\ reqs'[r].user # <<>>
           /\ reqs'[r].user[1].id = regs[k].inserted

C18_LoginKeyIsRegisterKey == [][LookupFindsRegistered]_vars

====
